---- MODULE Spec2Model ----
(***************************************************************************)
(* A model of streamlit_app.py, the AI movie recommender.                  *)
(*                                                                         *)
(* Python values are modelled as follows.  A dict is a function whose      *)
(* domain is its set of keys; a list is a sequence; None is the empty      *)
(* sequence and an optional number x is <<x>>.  Text that the code         *)
(* inspects character by character (the model's answer, movie titles,      *)
(* str(genre id)) is a sequence of one-character strings; text the code    *)
(* only compares whole (form options, keys) is a TLA+ string.  The en dash *)
(* of the option labels "Around 90-120 minutes" and "2010-2020" is written *)
(* "-", and the bullet U+2022 is the character "bullet".                   *)
(***************************************************************************)
EXTENDS Integers, Sequences, FiniteSets, TLC

VARIABLES
    \* --- search_tmdb_movies and the "Find Movies" handler
    answers,        \* the answers dict (line 56)
    page,           \* loop variable of line 162
    results,        \* the list built at lines 161-183
    url,            \* the URL of the last request (lines 163-172)
    served,         \* every item the catalog has returned so far, in order
    calls,          \* number of catalog requests issued (line 176)
    spc,            \* "loop", "done" (handler finished) or "raised"
    message,        \* what the handler showed (lines 193, 197)
    \* --- one script run per user interaction
    widgets,        \* the values the form widgets hold between runs
    event,          \* the interaction that triggered the last script run
    rendered,       \* the buttons the last script run rendered
    ran,            \* the calls the last script run made
    \* --- select_movies_with_openai, the "Recommend" handler, the display loop
    tmdb_results,   \* the pool handed to the ranker and the resolver
    outcome,        \* what the completion request did
    selected_movies,\* the Selection (line 202)
    requests,       \* number of completion requests issued (line 40)
    note,           \* what the handler showed (lines 50, 205, 209)
    idx,            \* position of the display loop (line 244) in selected_movies
    shown_titles,   \* line 241
    resolved,       \* per Selection string: <<>> (no match) or <<movie>> (line 247)
    displayed,      \* the movies displayed, in order (line 258)
    rpc             \* "ask", "display" or "end"

searchVars == <<answers, page, results, url, served, calls, spc, message>>
uiVars == <<widgets, event, rendered, ran>>
rankVars == <<tmdb_results, outcome, selected_movies, requests, note, idx,
              shown_titles, resolved, displayed, rpc>>
vars == <<searchVars, uiVars, rankVars>>

-----------------------------------------------------------------------------
(* Python helpers *)

None == <<>>
Some(x) == <<x>>
EmptyDict == [k \in {} |-> None]

\* d.get(k, default)
Get(d, k, default) == IF k \in DOMAIN d THEN d[k] ELSE default

\* x in lst
InList(x, lst) == \E i \in 1..Len(lst) : lst[i] = x

Range(s) == {s[i] : i \in 1..Len(s)}

Digits == <<"0", "1", "2", "3", "4", "5", "6", "7", "8", "9">>
DigitChars == Range(Digits)
DigitValue(c) == (CHOOSE i \in 1..10 : Digits[i] = c) - 1

\* str(n) for n >= 0
RECURSIVE str(_)
str(n) == IF n < 10 THEN <<Digits[n + 1]>> ELSE Append(str(n \div 10), Digits[(n % 10) + 1])

\* int(s) for a string of decimal digits
RECURSIVE int(_)
int(s) == IF Len(s) = 1 THEN DigitValue(s[1])
          ELSE 10 * int(SubSeq(s, 1, Len(s) - 1)) + DigitValue(s[Len(s)])

-----------------------------------------------------------------------------
(* search_tmdb_movies, lines 133-185 *)

genre_map == [Action |-> 28, Comedy |-> 35, Drama |-> 18, Romance |-> 10749,
              Thriller |-> 53, Horror |-> 27, Animation |-> 16,
              Documentary |-> 99, Fantasy |-> 14] @@ ("Sci-Fi" :> 878)

language_map == [English |-> "en", French |-> "fr", Spanish |-> "es",
                 Korean |-> "ko", Italian |-> "it", Portuguese |-> "pt"]

year_range_map == ("Before 1950" :> <<1900, 1949>>) @@ ("1950-1980" :> <<1950, 1980>>)
               @@ ("1980-2000" :> <<1980, 2000>>) @@ ("2000-2010" :> <<2000, 2010>>)
               @@ ("2010-2020" :> <<2010, 2020>>) @@ ("2020-2024" :> <<2020, 2024>>)

\* line 146
genre_ids(a) ==
    LET known(g) == g \in DOMAIN genre_map
        kept == SelectSeq(a["genre"], known)
    IN  [i \in 1..Len(kept) |-> str(genre_map[kept[i]])]

\* line 147
language_codes(a) ==
    LET known(lang) == lang # "No preference" /\ lang \in DOMAIN language_map
        kept == SelectSeq(a["language"], known)
    IN  [i \in 1..Len(kept) |-> language_map[kept[i]]]

\* line 148
selected_range(a) == Get(year_range_map, a["release_year"], None)

\* line 149
min_year(a) == IF selected_range(a) # None THEN Some(selected_range(a)[1]) ELSE None
max_year(a) == IF selected_range(a) # None THEN Some(selected_range(a)[2]) ELSE None

\* lines 151-159
with_runtime(a) ==
    LET duration_pref == a["duration"]
    IN  IF duration_pref = "Less than 90 minutes" THEN <<0, 89>>
        ELSE IF duration_pref = "Around 90-120 minutes" THEN <<0, 120>>
        ELSE IF duration_pref = "More than 2 hours" THEN <<120, 400>>
        ELSE <<0, 400>>

\* the truth value of an optional number (None and 0 are false)
Truthy(opt) == opt # None /\ opt[1] # 0

\* lines 163-172: the query string, as a dict from parameter name to value
BuildUrl(a, p) ==
    ("page" :> p) @@ ("language" :> "en-US") @@ ("sort_by" :> "popularity.desc")
    @@ (IF genre_ids(a) # <<>> THEN ("with_genres" :> genre_ids(a)) ELSE EmptyDict)
    @@ (IF language_codes(a) # <<>>
        THEN ("with_original_language" :> language_codes(a)[1]) ELSE EmptyDict)
    @@ (IF Truthy(min_year(a))
        THEN ("primary_release_date.gte" :> <<min_year(a)[1], 1, 1>>) ELSE EmptyDict)
    @@ (IF Truthy(max_year(a))
        THEN ("primary_release_date.lte" :> <<max_year(a)[1], 12, 31>>) ELSE EmptyDict)
    @@ ("with_runtime.gte" :> with_runtime(a)[1])
    @@ ("with_runtime.lte" :> with_runtime(a)[2])

\* a plausible slip of lines 179-182: any() in place of all()
filtered_any(data, a) ==
    LET gids == genre_ids(a)
        keep(movie) == \E i \in 1..Len(gids) :
                           InList(int(gids[i]), Get(movie, "genre_ids", <<>>))
    IN  SelectSeq(Get(data, "results", <<>>), keep)

\* lines 179-182
filtered(data, a) ==
    LET gids == genre_ids(a)
        keep(movie) == \A i \in 1..Len(gids) :
                           InList(int(gids[i]), Get(movie, "genre_ids", <<>>))
    IN  SelectSeq(Get(data, "results", <<>>), keep)

\* range(1, 6), line 162
FirstPage == 1
LastPage == 5

\* what one catalog request can do.  "status_ok": a JSON body with a results
\* list; "status_error": a non-success status with a JSON error body (no
\* "results" key); "bad_body": a body that is not JSON, so response.json()
\* (line 177) raises; "network_error": requests.get (line 176) raises.
ResponseKinds == {"status_ok", "status_error", "bad_body", "network_error"}

\* line 177: the parsed body
JsonOf(resp) == IF resp.kind = "status_ok" THEN [results |-> resp.items]
                ELSE [status_code |-> 7, success |-> FALSE]

Raises(resp) == resp.kind \in {"bad_body", "network_error"}

\* lines 192-197
FindMessage(res) == IF res # <<>> THEN "found" ELSE "no_movies"

\* the keys search_tmdb_movies reads, lines 146-151
SearchKeys == {"genre", "language", "release_year", "duration"}

\* lines 161-185 on the responses resps[1..5]: what the call raised or returned
RECURSIVE search_loop(_, _, _, _)
search_loop(a, p, acc, resps) ==
    IF p > LastPage THEN [raised |-> FALSE, results |-> acc, calls |-> p - FirstPage]
    ELSE IF Raises(resps[p]) THEN [raised |-> TRUE, results |-> <<>>, calls |-> p - FirstPage + 1]
    ELSE search_loop(a, p + 1, acc \o filtered(JsonOf(resps[p]), a), resps)

\* lines 133-185; a missing key raises KeyError
search_tmdb_movies(a, resps) ==
    IF ~(SearchKeys \subseteq DOMAIN a) THEN [raised |-> TRUE, results |-> <<>>, calls |-> 0]
    ELSE search_loop(a, FirstPage, <<>>, resps)

-----------------------------------------------------------------------------
(* Text helpers *)

\* the characters str.strip() and the regex class \s remove, among those modelled
Whitespace == {" ", "\n", "\t", "\r"}

\* the argument of m.strip(...) at line 47
ListMarkers == {"bullet", "-", ".", " "} \cup DigitChars

RECURSIVE lstrip(_, _)
lstrip(s, chars) == IF s # <<>> /\ s[1] \in chars THEN lstrip(Tail(s), chars) ELSE s

RECURSIVE rstrip(_, _)
rstrip(s, chars) == IF s # <<>> /\ s[Len(s)] \in chars
                    THEN rstrip(SubSeq(s, 1, Len(s) - 1), chars) ELSE s

\* s.strip(chars): both ends
strip(s, chars) == rstrip(lstrip(s, chars), chars)

\* s.split(sep) for a one-character separator: always at least one piece
RECURSIVE split(_, _)
split(s, sep) ==
    IF \A i \in 1..Len(s) : s[i] # sep THEN <<s>>
    ELSE LET k == CHOOSE i \in 1..Len(s) : s[i] = sep /\ \A j \in 1..(i - 1) : s[j] # sep
         IN  <<SubSeq(s, 1, k - 1)>> \o split(SubSeq(s, k + 1, Len(s)), sep)

\* lst[:n]
FirstN(lst, n) == SubSeq(lst, 1, IF Len(lst) < n THEN Len(lst) ELSE n)

\* selected[:5], line 48
TopN == 5

\* ord(c)
CodePoint(c) ==
    CASE c = "\t" -> 9 [] c = "\n" -> 10 [] c = "\r" -> 13 [] c = " " -> 32
      [] c = "(" -> 40 [] c = ")" -> 41 [] c = "-" -> 45 [] c = "." -> 46
      [] c \in DigitChars -> 48 + DigitValue(c)
      [] c = "a" -> 97 [] c = "b" -> 98 [] c = "c" -> 99
      [] c = "bullet" -> 8226

\* s < t for Python strings
RECURSIVE StrLess(_, _)
StrLess(s, t) ==
    IF t = <<>> THEN FALSE
    ELSE IF s = <<>> THEN TRUE
    ELSE IF s[1] = t[1] THEN StrLess(Tail(s), Tail(t))
    ELSE CodePoint(s[1]) < CodePoint(t[1])

-----------------------------------------------------------------------------
(* select_movies_with_openai, lines 15-51 *)

\* the keys the prompt reads, lines 19-26
PromptKeys == {"mood", "company", "with_kids", "tone", "popularity",
               "real_or_fiction", "discussion", "soundtrack"}

\* a plausible slip of line 47: the blank-line filter left out
parse_unfiltered(content) ==
    LET raw_output == split(strip(content, Whitespace), "\n")
        clean(m) == strip(strip(m, ListMarkers), Whitespace)
    IN  FirstN([i \in 1..Len(raw_output) |-> clean(raw_output[i])], TopN)

\* lines 46-48
parse(content) ==
    LET raw_output == split(strip(content, Whitespace), "\n")
        nonblank(m) == strip(m, Whitespace) # <<>>
        clean(m) == strip(strip(m, ListMarkers), Whitespace)
        kept == SelectSeq(raw_output, nonblank)
    IN  FirstN([i \in 1..Len(kept) |-> clean(kept[i])], TopN)

\* lines 39-51: the value returned for each thing the completion request can do.
\* "raises": client.chat.completions.create raises; "no_content": the message
\* carries no text (content is None, so .strip() raises inside the try);
\* "text": the message text is out.content.
select_result(out) == IF out.kind = "text" THEN parse(out.content) ELSE <<>>

\* lines 50 and 204-209: what the ranker and its caller show
RankMessages(out) ==
    (IF out.kind # "text" THEN <<"openai_error">> ELSE <<>>)
    \o (IF select_result(out) # <<>>
        THEN <<"top5">> ELSE <<"no_suggestions">>)

-----------------------------------------------------------------------------
(* difflib.get_close_matches as called at line 246 *)

\* cutoff=0.8
CutoffNum == 8
CutoffDen == 10

\* length of the common run of a[i..ahi] and b[j..bhi]
RECURSIVE Run(_, _, _, _, _, _)
Run(a, b, i, j, ahi, bhi) ==
    IF i <= ahi /\ j <= bhi /\ a[i] = b[j] THEN 1 + Run(a, b, i + 1, j + 1, ahi, bhi) ELSE 0

\* SequenceMatcher.find_longest_match without junk: the longest block common to
\* a[alo..ahi] and b[blo..bhi], the one starting earliest in a, then earliest in b
find_longest_match(a, b, alo, ahi, blo, bhi) ==
    LET pairs == (alo..ahi) \X (blo..bhi)
        size == [p \in pairs |-> Run(a, b, p[1], p[2], ahi, bhi)]
        best == CHOOSE p \in pairs :
                   \A q \in pairs :
                      \/ size[q] < size[p]
                      \/ /\ size[q] = size[p]
                         /\ \/ p[1] < q[1]
                            \/ p[1] = q[1] /\ p[2] <= q[2]
    IN  IF pairs = {} THEN <<alo, blo, 0>> ELSE <<best[1], best[2], size[best]>>

\* the sum of the sizes of SequenceMatcher.get_matching_blocks
RECURSIVE matches(_, _, _, _, _, _)
matches(a, b, alo, ahi, blo, bhi) ==
    LET m == find_longest_match(a, b, alo, ahi, blo, bhi)
    IN  IF m[3] = 0 THEN 0
        ELSE m[3] + matches(a, b, alo, m[1] - 1, blo, m[2] - 1)
                  + matches(a, b, m[1] + m[3], ahi, m[2] + m[3], bhi)

\* SequenceMatcher(None, a, b).ratio() as the fraction <<numerator, denominator>>
ratio(a, b) ==
    IF Len(a) + Len(b) = 0 THEN <<1, 1>>
    ELSE <<2 * matches(a, b, 1, Len(a), 1, Len(b)), Len(a) + Len(b)>>

FracLess(r, q) == r[1] * q[2] < q[1] * r[2]
ClearsCutoff(r) == r[1] * CutoffDen >= CutoffNum * r[2]

\* get_close_matches(word, possibilities, n=1, cutoff=0.8): the candidates whose
\* ratio clears the cutoff (real_quick_ratio and quick_ratio are upper bounds of
\* ratio and reject nothing more), the largest by (ratio, string)
get_close_matches(word, possibilities) ==
    LET score == [x \in Range(possibilities) |-> ratio(x, word)]
        passing == {x \in Range(possibilities) : ClearsCutoff(score[x])}
        below(x, y) == \/ FracLess(score[x], score[y])
                       \/ score[x] = score[y] /\ StrLess(x, y)
    IN  IF passing = {} THEN <<>>
        ELSE <<CHOOSE x \in passing : \A y \in passing : y = x \/ below(y, x)>>

\* re.sub(r"\s*\(\d{4}\)$", "", title).strip(), line 245
clean_title(title) ==
    LET n == Len(title)
        \* $ also matches just before a final newline
        e == IF n > 0 /\ title[n] = "\n" THEN n - 1 ELSE n
        year == /\ e >= 6
                /\ title[e - 5] = "("
                /\ \A i \in (e - 4)..(e - 1) : title[i] \in DigitChars
                /\ title[e] = ")"
    IN  IF year
        THEN strip(rstrip(SubSeq(title, 1, e - 6), Whitespace) \o SubSeq(title, e + 1, n),
                   Whitespace)
        ELSE strip(title, Whitespace)

\* a plausible slip of line 247: the last pool entry bearing the title
movie_data_last(title, pool) ==
    LET tmdb_titles == [i \in 1..Len(pool) |-> pool[i]["title"]]
        match == get_close_matches(clean_title(title), tmdb_titles)
    IN  IF match = <<>> THEN None
        ELSE LET k == CHOOSE i \in 1..Len(pool) :
                         /\ pool[i]["title"] = match[1]
                         /\ \A j \in (i + 1)..Len(pool) : pool[j]["title"] # match[1]
             IN  Some(pool[k])

\* lines 242, 245-247: the Resolved Match of one Selection string
movie_data(title, pool) ==
    LET tmdb_titles == [i \in 1..Len(pool) |-> pool[i]["title"]]
        match == get_close_matches(clean_title(title), tmdb_titles)
    IN  IF match = <<>> THEN None
        ELSE LET k == CHOOSE i \in 1..Len(pool) :
                         /\ pool[i]["title"] = match[1]
                         /\ \A j \in 1..(i - 1) : pool[j]["title"] # match[1]
             IN  Some(pool[k])

-----------------------------------------------------------------------------
(* Inputs of the search: preference sets and catalog items *)

MaxPageLen == 2     \* items on one catalog page
MaxServed == 3      \* items the catalog returns over the five pages

SeqsUpTo(S, n) == UNION {[1..k -> S] : k \in 0..n}

Movie1 == [id |-> 1, title |-> <<"a", "a">>, genre_ids |-> <<28>>,
           release_date |-> <<2005, 6, 15>>, runtime |-> 100]
Movie2 == [id |-> 2, title |-> <<"a", "b">>, genre_ids |-> <<35, 28>>,
           release_date |-> <<1995, 1, 1>>, runtime |-> 150]
Movie3 == [id |-> 3, title |-> <<"b">>, genre_ids |-> <<35>>,
           release_date |-> <<2005, 6, 15>>]
Movie4 == [id |-> 4, title |-> <<"b", "b">>]
CatalogItems == {Movie1, Movie2, Movie3, Movie4}

GenreChoices == {<<>>, <<"Action">>, <<"Action", "Comedy">>, <<"Western">>}
LanguageChoices == {<<>>, <<"No preference">>, <<"French", "English">>}
YearChoices == {"2000-2010", "Before 1950", "No preference"}
DurationChoices == {"Less than 90 minutes", "Around 90-120 minutes",
                    "More than 2 hours", "No preference"}

\* the options the basic-questions form offers (lines 61-72)
FormGenres == {"Action", "Comedy", "Drama", "Sci-Fi", "Romance", "Thriller",
               "Horror", "Animation", "Documentary", "Fantasy"}
FormDurations == {"Less than 90 minutes", "Around 90-120 minutes", "More than 2 hours"}

Responses(n) ==
    {[kind |-> k, items |-> <<>>] : k \in ResponseKinds \ {"status_ok"}}
    \cup {[kind |-> "status_ok", items |-> it] :
             it \in SeqsUpTo(CatalogItems, IF n < MaxPageLen THEN n ELSE MaxPageLen)}

UiIdle ==
    /\ widgets = EmptyDict
    /\ event = "none"
    /\ rendered = {}
    /\ ran = {}

RankIdle ==
    /\ tmdb_results = <<>>
    /\ outcome = "none"
    /\ selected_movies = <<>>
    /\ requests = 0
    /\ note = <<>>
    /\ idx = 0
    /\ shown_titles = {}
    /\ resolved = <<>>
    /\ displayed = <<>>
    /\ rpc = "idle"

SearchIdle ==
    /\ answers = EmptyDict
    /\ page = 0
    /\ results = <<>>
    /\ url = EmptyDict
    /\ served = <<>>
    /\ calls = 0
    /\ spc = "idle"
    /\ message = "none"

-----------------------------------------------------------------------------
(* The "Find Movies" handler, lines 188-197, entered with some answers *)

InitSearch ==
    /\ answers \in {[duration |-> d, language |-> l, genre |-> g, release_year |-> y] :
                       d \in DurationChoices, l \in LanguageChoices,
                       g \in GenreChoices, y \in YearChoices}
    /\ page = FirstPage
    /\ results = <<>>
    /\ url = EmptyDict
    /\ served = <<>>
    /\ calls = 0
    /\ spc = "loop"
    /\ message = "none"
    /\ UiIdle
    /\ RankIdle

\* one iteration of the loop of lines 162-183
FetchPage ==
    /\ spc = "loop"
    /\ page <= LastPage
    /\ \E resp \in Responses(MaxServed - Len(served)) :
          /\ url' = BuildUrl(answers, page)
          /\ calls' = calls + 1
          /\ served' = served \o resp.items
          /\ IF Raises(resp)
             THEN /\ spc' = "raised"
                  /\ UNCHANGED <<page, results>>
             ELSE /\ results' = results \o filtered(JsonOf(resp), answers)
                  /\ page' = page + 1
                  /\ spc' = "loop"
    /\ UNCHANGED <<answers, message>>
    /\ UNCHANGED <<uiVars, rankVars>>

\* line 185 and lines 192-197
FindMoviesDone ==
    /\ spc = "loop"
    /\ page > LastPage
    /\ message' = FindMessage(results)
    /\ spc' = "done"
    /\ UNCHANGED <<answers, page, results, url, served, calls>>
    /\ UNCHANGED <<uiVars, rankVars>>

NextSearch == FetchPage \/ FindMoviesDone

SpecSearch == InitSearch /\ [][NextSearch]_vars

-----------------------------------------------------------------------------
(* The "Recommend Top 5 with AI" handler, lines 200-209, and the display loop,
   lines 238-283, entered with a non-empty pool *)

MaxContentLen == 4  \* characters of a free-form answer
MaxLines == 6       \* lines of a list-shaped answer
MaxPool == 2        \* entries of the pool handed to the resolver
MaxTitleLen == 3    \* letters of a title, before any year suffix

Join(lines) ==
    LET RECURSIVE J(_)
        J(k) == IF k = 0 THEN <<>>
                ELSE IF k = 1 THEN lines[1]
                ELSE J(k - 1) \o <<"\n">> \o lines[k]
    IN  J(Len(lines))

ContentAlphabet == {"1", ".", " ", "a", "\n"}
SampleLines == {<<"a">>, <<"1", ".", " ", "a", "b", " ", "2">>, <<" ">>}

Contents ==
    SeqsUpTo(ContentAlphabet, MaxContentLen)
    \cup {Join(ls) : ls \in SeqsUpTo(SampleLines, MaxLines)}

Outcomes ==
    {[kind |-> "raises", content |-> <<>>], [kind |-> "no_content", content |-> <<>>]}
    \cup {[kind |-> "text", content |-> c] : c \in Contents}

MoodAnswers == [mood |-> <<"Happy">>, company |-> "Alone", with_kids |-> "No",
                tone |-> "Easygoing", popularity |-> "No preference",
                real_or_fiction |-> "No preference", discussion |-> "No",
                soundtrack |-> "No preference"]
BasicAnswers == [duration |-> "Less than 90 minutes", language |-> <<"English">>,
                 genre |-> <<"Action">>, release_year |-> "No preference"]

RankPools == {<<Movie1, Movie2, Movie3>>, <<Movie4>>}

Letters == {"a", "b"}
YearSuffix == <<" ", "(", "1", "9", "9", "9", ")">>
\* titles a, b, aa, ab, aaa, aab, ...: near-duplicates of one another
BaseTitles == {t \in SeqsUpTo(Letters, MaxTitleLen) \ {<<>>} :
                  \A i \in 1..(Len(t) - 1) : t[i] = "a"}
\* a title with a trailing space, which the cleaning of line 245 also removes
EdgedTitles == {<<"a", "a", " ">>}
TitleSet == BaseTitles \cup {b \o YearSuffix : b \in BaseTitles} \cup EdgedTitles

\* pools whose i-th entry has identifier i
ResolvePools ==
    UNION {{[i \in 1..n |-> [id |-> i, title |-> ts[i]]] : ts \in [1..n -> TitleSet]} :
              n \in 1..MaxPool}

InitRankCommon ==
    /\ page = 0
    /\ results = <<>>
    /\ url = EmptyDict
    /\ served = <<>>
    /\ calls = 0
    /\ spc = "idle"
    /\ message = "none"
    /\ UiIdle
    /\ outcome = "none"
    /\ requests = 0
    /\ note = <<>>
    /\ idx = 1
    /\ shown_titles = {}
    /\ resolved = <<>>
    /\ displayed = <<>>

InitRank ==
    /\ InitRankCommon
    /\ answers \in {MoodAnswers, BasicAnswers}
    /\ tmdb_results \in RankPools
    /\ selected_movies = <<>>
    /\ rpc = "ask"

\* lines 200-209 with the call of select_movies_with_openai (lines 15-51), and
\* the guard of line 238
AskGPT ==
    /\ rpc = "ask"
    /\ IF ~(PromptKeys \subseteq DOMAIN answers)
       THEN \* KeyError while the prompt is built (lines 19-26), outside the try
            /\ rpc' = "raised"
            /\ UNCHANGED <<outcome, selected_movies, requests, note>>
       ELSE \E out \in Outcomes :
               /\ outcome' = out
               /\ requests' = requests + 1
               /\ selected_movies' = select_result(out)
               /\ note' = RankMessages(out)
               /\ rpc' = IF tmdb_results # <<>> /\ select_result(out) # <<>>
                         THEN "display" ELSE "end"
    /\ UNCHANGED <<tmdb_results, idx, shown_titles, resolved, displayed>>
    /\ UNCHANGED <<searchVars, uiVars>>

\* one iteration of the loop of lines 244-283
DisplayNext ==
    /\ rpc = "display"
    /\ idx <= Len(selected_movies)
    /\ LET md == movie_data(selected_movies[idx], tmdb_results)
       IN  /\ resolved' = Append(resolved, md)
           /\ IF md # None /\ md[1]["title"] \notin shown_titles
              THEN /\ shown_titles' = shown_titles \cup {md[1]["title"]}
                   /\ displayed' = Append(displayed, md[1])
              ELSE UNCHANGED <<shown_titles, displayed>>
    /\ idx' = idx + 1
    /\ UNCHANGED <<tmdb_results, outcome, selected_movies, requests, note, rpc>>
    /\ UNCHANGED <<searchVars, uiVars>>

\* the loop of line 244 is exhausted
DisplayEnd ==
    /\ rpc = "display"
    /\ idx > Len(selected_movies)
    /\ rpc' = "end"
    /\ UNCHANGED <<tmdb_results, outcome, selected_movies, requests, note, idx,
                   shown_titles, resolved, displayed>>
    /\ UNCHANGED <<searchVars, uiVars>>

NextRank == AskGPT \/ DisplayNext \/ DisplayEnd

SpecRank == InitRank /\ [][NextRank]_vars

(* The display loop alone, lines 238-283, entered with any pool and one
   Selection string *)

InitResolve ==
    /\ InitRankCommon
    /\ answers = MoodAnswers
    /\ tmdb_results \in ResolvePools
    /\ selected_movies \in {<<t>> : t \in TitleSet}
    /\ rpc = "display"

NextResolve == DisplayNext \/ DisplayEnd

SpecResolve == InitResolve /\ [][NextResolve]_vars

-----------------------------------------------------------------------------
(* The whole script, one run per user interaction.  The framework reruns the
   script from line 1 on every interaction: a form's submit button and a plain
   button return True only in the run their own click triggered, the widgets
   keep their values, and every script variable starts afresh. *)

BasicKeys == {"duration", "language", "genre", "release_year"}

DefaultWidgets ==
    [duration |-> "Less than 90 minutes", language |-> <<>>, genre |-> <<>>,
     release_year |-> "Before 1950", mood |-> <<>>, company |-> "Alone",
     with_kids |-> "Yes", tone |-> "Emotionally deep",
     popularity |-> "I prefer well known", real_or_fiction |-> "Real events",
     discussion |-> "Yes", soundtrack |-> "Yes", debug |-> FALSE]

\* what the user can enter in the basic-questions form (lines 61-72)
BasicEntries ==
    [duration : FormDurations,
     language : {<<>>, <<"English">>},
     genre : {<<>>, <<"Action">>, <<"Action", "Comedy">>},
     release_year : {"Before 1950", "No preference"}]

\* what the user can enter in the mood form (lines 89-112)
MoodEntries ==
    [mood : {<<>>, <<"Happy">>}, company : {"Alone", "Friends"},
     with_kids : {"Yes"}, tone : {"Emotionally deep"},
     popularity : {"I prefer well known"}, real_or_fiction : {"Real events"},
     discussion : {"Yes"}, soundtrack : {"Yes", "No preference"}]

\* d.update(e): the keys of e set in d
Update(d, e) == [k \in DOMAIN d \cup DOMAIN e |-> IF k \in DOMAIN e THEN e[k] ELSE d[k]]

Restrict(d, keys) == [k \in keys |-> d[k]]

\* lines 56-84 and 116-125: answers as the run leaves it
answers_after(trigger, w) ==
    LET submitted == trigger = "Next"
        submitted_2 == trigger = "Save Preferences"
        a0 == EmptyDict
        a1 == IF submitted /\ w["genre"] # <<>> THEN Update(a0, Restrict(w, BasicKeys)) ELSE a0
    IN  IF submitted_2 THEN Update(a1, Restrict(w, PromptKeys)) ELSE a1

\* the movies displayed given each Selection string's Resolved Match md[i]
Displayed(md) ==
    LET fresh(i) == /\ md[i] # None
                    /\ \A j \in 1..(i - 1) :
                          md[j] = None \/ md[j][1]["title"] # md[i][1]["title"]
        kept == SelectSeq([i \in 1..Len(md) |-> i], fresh)
    IN  [k \in 1..Len(kept) |-> md[kept[k]][1]]

\* lines 241-283 as one pass: the movies displayed.  A Selection string is
\* displayed when it resolves and no earlier string resolved to the same title
\* (shown_titles holds exactly the titles resolved so far).
display_loop(sel, pool) ==
    Displayed([i \in 1..Len(sel) |-> movie_data(sel[i], pool)])

\* the catalog's answers to the five requests of one search
PageResponses == [FirstPage..LastPage -> Responses(1)]

\* line 188-190: the search made by this run, if any
SearchOutcomes(a, find_clicked) ==
    IF find_clicked
    THEN {search_tmdb_movies(a, resps) @@ [defined |-> TRUE] : resps \in PageResponses}
    ELSE {[raised |-> FALSE, results |-> <<>>, calls |-> 0, defined |-> FALSE]}

\* lines 200-202: the ranking made by this run, if any
RankOutcomes(a, rec_clicked) ==
    IF rec_clicked
    THEN IF PromptKeys \subseteq DOMAIN a
         THEN {[raised |-> FALSE, selected |-> select_result(out), defined |-> TRUE,
                 note |-> RankMessages(out), requests |-> 1] : out \in Outcomes}
         ELSE {[raised |-> TRUE, selected |-> <<>>, defined |-> FALSE,
                note |-> <<>>, requests |-> 0]}
    ELSE {[raised |-> FALSE, selected |-> <<>>, defined |-> FALSE,
           note |-> <<>>, requests |-> 0]}

\* one run of the script, lines 1-286, triggered by `trigger` with the widgets w
ScriptRun(trigger, w) ==
    LET a == answers_after(trigger, w)
        find_rendered == a # EmptyDict
        find_clicked == find_rendered /\ trigger = "Find Movies"
    IN  /\ widgets' = w
        /\ event' = trigger
        /\ answers' = a
        /\ \E sr \in SearchOutcomes(a, find_clicked) :
              LET rec_rendered == sr.defined /\ ~sr.raised /\ sr.results # <<>>
                  rec_clicked == rec_rendered /\ trigger = "Recommend Top 5 with AI"
              IN  \E rk \in RankOutcomes(a, rec_clicked) :
                     LET aborted == sr.raised \/ rk.raised
                         shows == /\ ~aborted
                                  /\ sr.defined /\ sr.results # <<>>
                                  /\ rk.defined /\ rk.selected # <<>>
                     IN  /\ tmdb_results' = sr.results
                         /\ calls' = sr.calls
                         /\ requests' = rk.requests
                         /\ note' = rk.note
                         /\ selected_movies' = rk.selected
                         /\ message' = IF sr.defined /\ ~sr.raised
                                       THEN FindMessage(sr.results) ELSE "none"
                         /\ displayed' = IF shows
                                         THEN display_loop(rk.selected, sr.results)
                                         ELSE <<>>
                         /\ ran' = (IF find_clicked THEN {"search_tmdb_movies"} ELSE {})
                                   \cup (IF rec_clicked /\ ~sr.raised
                                         THEN {"select_movies_with_openai"} ELSE {})
                         /\ rendered' = (IF find_rendered THEN {"Find Movies"} ELSE {})
                                        \cup (IF rec_rendered
                                              THEN {"Recommend Top 5 with AI"} ELSE {})
                                        \cup (IF ~aborted THEN {"Debug answers"} ELSE {})
    /\ UNCHANGED <<page, results, url, served, spc>>
    /\ UNCHANGED <<outcome, idx, shown_titles, resolved, rpc>>

\* the state after the first run, which no interaction triggered
InitUI ==
    /\ widgets = DefaultWidgets
    /\ event = "load"
    /\ answers = EmptyDict
    /\ rendered = {"Debug answers"}
    /\ ran = {}
    /\ page = 0
    /\ results = <<>>
    /\ url = EmptyDict
    /\ served = <<>>
    /\ calls = 0
    /\ spc = "idle"
    /\ message = "none"
    /\ RankIdle

\* the user fills in the basic-questions form and presses "Next" (line 74)
SubmitBasic ==
    \E e \in BasicEntries : ScriptRun("Next", Update(widgets, e))

\* the user fills in the mood form and presses "Save Preferences" (line 114)
SubmitMood ==
    \E e \in MoodEntries : ScriptRun("Save Preferences", Update(widgets, e))

\* the user presses a button the last run rendered (lines 188, 200)
PressButton ==
    \E b \in rendered \ {"Debug answers"} : ScriptRun(b, widgets)

\* the user ticks or unticks the checkbox of line 285
ToggleDebug ==
    /\ "Debug answers" \in rendered
    /\ ScriptRun("Debug answers", [widgets EXCEPT !["debug"] = ~widgets["debug"]])

NextUI == SubmitBasic \/ SubmitMood \/ PressButton \/ ToggleDebug

SpecUI == InitUI /\ [][NextUI]_vars

-----------------------------------------------------------------------------
(* Properties *)

\* the genre ids the Preference Set asks for
RequestedIds == {genre_map[g] : g \in Range(answers["genre"]) \cap DOMAIN genre_map}

\* C1: with a non-empty genre selection (of the genres the form offers), every
\* item of the list search_tmdb_movies builds has a genre_ids field holding
\* every requested genre id.
C1_EveryRequestedGenre ==
    (answers["genre"] # <<>> /\ Range(answers["genre"]) \subseteq FormGenres)
    => \A i \in 1..Len(results) :
          /\ "genre_ids" \in DOMAIN results[i]
          /\ RequestedIds \subseteq Range(results[i]["genre_ids"])

\* C1 witness: two genres asked; the catalog returned an item with only one of
\* them and an item with no genre_ids, and only the item with both was kept.
C1_Witness ==
    /\ spc = "done"
    /\ answers["genre"] = <<"Action", "Comedy">>
    /\ Movie1 \in Range(served)
    /\ Movie4 \in Range(served)
    /\ results = <<Movie2>>

\* whether every present numeric attribute of m lies in its declared range
InDeclaredRanges(m) ==
    /\ ("release_date" \in DOMAIN m /\ answers["release_year"] \in DOMAIN year_range_map)
       => /\ year_range_map[answers["release_year"]][1] <= m["release_date"][1]
          /\ m["release_date"][1] <= year_range_map[answers["release_year"]][2]
    /\ ("runtime" \in DOMAIN m /\ answers["duration"] \in FormDurations)
       => /\ with_runtime(answers)[1] <= m["runtime"]
          /\ m["runtime"] <= with_runtime(answers)[2]

\* C2: once the search has returned, an item the catalog returned is in the
\* output if and only if each of its present numeric attributes (release year,
\* runtime) lies within the range declared by the Preference Set.
C2_RetainedIffInRange ==
    spc = "done" =>
        \A i \in 1..Len(served) : InList(served[i], results) <=> InDeclaredRanges(served[i])

\* C3: the list search_tmdb_movies builds never holds two items with the same
\* identifier.
C3_NoDuplicateIds ==
    \A i, j \in 1..Len(results) : i # j => results[i]["id"] # results[j]["id"]

\* C6: a catalog call that fails never makes search_tmdb_movies raise: the
\* handler is never left by an exception.
C6_FailedCallNeverRaises == spc # "raised"

\* C9: in the URL of every request, a preference whose value is unrecognized or
\* "No preference" (genre, language, release year, duration) contributes no
\* filter parameter.
C9_NoPreferenceNoParameter ==
    url # EmptyDict =>
        /\ (Range(answers["genre"]) \cap DOMAIN genre_map = {})
              => "with_genres" \notin DOMAIN url
        /\ (Range(answers["language"]) \cap DOMAIN language_map = {})
              => "with_original_language" \notin DOMAIN url
        /\ (answers["release_year"] \notin DOMAIN year_range_map)
              => /\ "primary_release_date.gte" \notin DOMAIN url
                 /\ "primary_release_date.lte" \notin DOMAIN url
        /\ (answers["duration"] \notin FormDurations)
              => /\ "with_runtime.gte" \notin DOMAIN url
                 /\ "with_runtime.lte" \notin DOMAIN url

\* C4: when the run after an accepted submission of the basic-questions form
\* is triggered by "Find Movies", that run executes search_tmdb_movies with the
\* submitted answers; and a run triggered by "Recommend Top 5 with AI" invokes
\* the ranker.
C4_FindMoviesRunsSearch ==
    [][/\ (event = "Next" /\ answers # EmptyDict /\ event' = "Find Movies")
          => ("search_tmdb_movies" \in ran' /\ answers' = answers)
       /\ (event' = "Recommend Top 5 with AI")
          => "select_movies_with_openai" \in ran']_vars

\* C5: an answer once recorded stays in the Preference Set, unchanged, through
\* every later run that is not a submission of the form it came from.
C5_AnswersPersist ==
    [][\A k \in DOMAIN answers :
          (\/ k \in BasicKeys /\ event' # "Next"
           \/ k \in PromptKeys /\ event' # "Save Preferences")
          => (k \in DOMAIN answers' /\ answers'[k] = answers[k])]_vars

\* a text with no non-blank line
Blank(text) == \A i \in 1..Len(text) : text[i] \in Whitespace

NonBlankLines(text) ==
    LET nonblank(m) == ~Blank(m) IN SelectSeq(split(text, "\n"), nonblank)

\* a line without its leading list markers (and surrounding white space)
WithoutLeadingMarkers(m) == strip(lstrip(m, ListMarkers), Whitespace)

\* C10: the Selection is the first five non-blank lines of the response, in
\* order, each without its leading list-marker characters and with the rest of
\* the line kept.
C10_LeadingMarkersOnly ==
    (rpc \in {"display", "end"} /\ outcome.kind = "text")
    => LET lines == NonBlankLines(outcome.content)
       IN  selected_movies =
              FirstN([i \in 1..Len(lines) |-> WithoutLeadingMarkers(lines[i])], TopN)

\* whether a title ends in a parenthesised four-digit year
EndsInYear(t) ==
    /\ Len(t) >= 6
    /\ t[Len(t) - 5] = "(" /\ t[Len(t)] = ")"
    /\ \A i \in (Len(t) - 4)..(Len(t) - 1) : t[i] \in DigitChars

\* whether a title begins or ends with white space
Edged(t) == t # <<>> /\ (t[1] \in Whitespace \/ t[Len(t)] \in Whitespace)

\* C8 as stated: resolving a Selection string identical to the title of a pool
\* entry e yields e itself, whatever the other entries and whatever the title.
C8_ExactTitleResolvesToEntry ==
    idx > 1 =>
        \A i \in 1..Len(tmdb_results) :
            tmdb_results[i]["title"] = selected_movies[1]
            => resolved[1] = Some(tmdb_results[i])

\* C8 as amended: resolving a Selection string identical to the title of a pool
\* entry e yields the first pool entry bearing that title (e itself when no
\* earlier entry has the same title), provided the title neither ends in a
\* parenthesised four-digit year nor begins or ends with white space.
C8_ExactTitleResolvesToFirst ==
    idx > 1 =>
        \A i \in 1..Len(tmdb_results) :
            (/\ tmdb_results[i]["title"] = selected_movies[1]
             /\ ~EndsInYear(selected_movies[1])
             /\ ~Edged(selected_movies[1])
             /\ \A j \in 1..(i - 1) : tmdb_results[j]["title"] # selected_movies[1])
            => resolved[1] = Some(tmdb_results[i])

\* C8 witness: two pool entries share the title asked for, next to none other,
\* and the first of them is the Resolved Match.
C8_Witness ==
    /\ idx > 1
    /\ Len(tmdb_results) = 2
    /\ tmdb_results[1]["title"] = selected_movies[1]
    /\ tmdb_results[2]["title"] = selected_movies[1]
    /\ resolved[1] = Some(tmdb_results[1])

====
